---- MODULE Spec2Model ----
(***************************************************************************)
(* ReorganisationMonitor (tradingstrategy/direct_feed/reorgmon.py):        *)
(* the block ledger (block_map, last_block_read), its operations           *)
(* add_block / truncate / update_chain, and the abstract block source      *)
(* consumed through get_last_block_live / get_block_data.                  *)
(***************************************************************************)
EXTENDS Integers, FiniteSets, Sequences, TLC

\* ------------------------------------------------------------------ bounds
\* Highest block number the source ever produces / a caller ever passes.
MaxBlock == 3
\* The monitor's check_depth constructor argument (default 200 in the code).
CheckDepth == 1
\* The monitor's max_reorg_resolution_attempts constructor argument (default 10).
MaxCycleTries == 2

\* Python's None (Optional[int] of ChainReorganisationResolution.latest_good_block).
None == 0 - 1

\* Block hashes are strings the code only compares for equality.
Hashes == {"0xa", "0xb"}
BlockNumbers == 1..MaxBlock

Max(a, b) == IF a >= b THEN a ELSE b
Min(a, b) == IF a <= b THEN a ELSE b
SetMin(S) == CHOOSE x \in S : \A y \in S : x <= y

\* BlockRecord(block_number, block_hash, timestamp).  The timestamp is an
\* attribute of the block the hash identifies, so a block number and a hash
\* determine it.
Timestamp(n, h) == 10 * n + (IF h = "0xa" THEN 1 ELSE 2)
BlockRecord(n, h) == [block_number |-> n, block_hash |-> h, timestamp |-> Timestamp(n, h)]
BlockRecords == {BlockRecord(n, h) : n \in BlockNumbers, h \in Hashes}

VARIABLES
    block_map,          \* self.block_map: block number -> BlockRecord (a dict)
    last_block_read,    \* self.last_block_read
    chain,              \* the source: chain[n] is the hash it reports for block n
    unstable,           \* the source: a block reported with a changed hash on every read (0: none)
    self_block_number,  \* SyntheticReorganisationMonitor: self.block_number, the next block to produce
    pc,                 \* update_chain: "idle", "loop" (while test), "scan" (for loop)
    tries_left,         \* update_chain: tries_left
    max_purge,          \* update_chain: max_purge
    check_start_at,     \* figure_reorganisation_and_new_blocks: check_start_at
    chain_last_block,   \* figure_reorganisation_and_new_blocks: chain_last_block
    cursor,             \* next block number the get_block_data generator yields
    streamed,           \* records the generator has yielded in this attempt
    attempt,            \* this call's attempts so far: their number, the head queries made, the ledger as the current one found it
    detected,           \* ChainReorganisationDetected exceptions caught in this call
    quiet,              \* the last operation is an update_chain call and the source has not moved since it began
    pre,                \* ledger as the last operation found it
    prev,               \* what the update_chain call before the last one returned
    appends_only,       \* every call so far that writes the ledger was an add_block call that succeeded
    result              \* how the last operation ended

vars == <<block_map, last_block_read, chain, unstable, self_block_number, pc, tries_left, max_purge,
          check_start_at, chain_last_block, cursor, streamed, attempt, detected, quiet,
          pre, prev, appends_only, result>>

ledger == <<block_map, last_block_read>>
source == <<chain, unstable, self_block_number>>
locals == <<tries_left, max_purge, check_start_at, chain_last_block, cursor, streamed,
            attempt>>

EmptyMap == [n \in {} |-> 0]
Ledger(bm, lbr) == [block_map |-> bm, last_block_read |-> lbr]

NoPrev == [returned |-> FALSE, last_block_number |-> None]
\* No attempt of update_chain has begun.
NoAttempt == [count |-> 0, head_queries |-> 0, source_errors |-> 0, differed |-> FALSE,
              ledger |-> Ledger(EmptyMap, 0)]

Outcome(op, arg, raised, lbn, lgb) ==
    [op |-> op, arg |-> arg, raised |-> raised,
     last_block_number |-> lbn, latest_good_block |-> lgb,
     check_start_at |-> None, chain_last_block |-> None, streamed |-> <<>>,
     value |-> None, attempt |-> NoAttempt]
NoResult == Outcome("none", None, "", None, None)

\* ------------------------------------------------------------- the ledger

\* dict without the keys in S
Without(bm, S) == [n \in (DOMAIN bm) \ S |-> bm[n]]
\* dict with bm[n] = r
With(bm, n, r) == [m \in (DOMAIN bm) \cup {n} |-> IF m = n THEN r ELSE bm[m]]

\* add_block(record): the first assertion, the store, the second assertion,
\* the assignment to last_block_read, in the code's order.
\* add_block without its second assertion: any absent block number is appended.
AddBlockNoOrderCheck(bm, lbr, record) ==
    LET block_number == record.block_number
    IN  IF block_number \in DOMAIN bm
            THEN [block_map |-> bm, last_block_read |-> lbr, raised |-> "AssertionError"]
            ELSE [block_map |-> With(bm, block_number, record),
                  last_block_read |-> block_number, raised |-> ""]
\* add_block asserting last_block_read < block_number: later blocks may be skipped to.
AddBlockAllowSkip(bm, lbr, record) ==
    LET block_number == record.block_number
        stored == With(bm, block_number, record)
    IN  IF block_number \in DOMAIN bm
            THEN [block_map |-> bm, last_block_read |-> lbr, raised |-> "AssertionError"]
        ELSE IF ~(lbr < block_number)
            THEN [block_map |-> stored, last_block_read |-> lbr, raised |-> "AssertionError"]
            ELSE [block_map |-> stored, last_block_read |-> block_number, raised |-> ""]
\* add_block without its first assertion: a present block number is stored over.
AddBlockStoreFirst(bm, lbr, record) ==
    LET block_number == record.block_number
        stored == With(bm, block_number, record)
    IN  IF lbr # block_number - 1
            THEN [block_map |-> stored, last_block_read |-> lbr, raised |-> "AssertionError"]
            ELSE [block_map |-> stored, last_block_read |-> block_number, raised |-> ""]
add_block(bm, lbr, record) ==
    LET block_number == record.block_number
        stored == With(bm, block_number, record)
    IN  IF block_number \in DOMAIN bm
            THEN [block_map |-> bm, last_block_read |-> lbr, raised |-> "AssertionError"]
        ELSE IF lbr # block_number - 1
            THEN [block_map |-> stored, last_block_read |-> lbr, raised |-> "AssertionError"]
            ELSE [block_map |-> stored, last_block_read |-> block_number, raised |-> ""]

\* truncate(latest_good_block): the assertion, then del block_map[b] for b in
\* range(latest_good_block + 1, last_block_read) in ascending order (a missing
\* key raises KeyError, keeping the deletions made before it), then the
\* assignment to last_block_read.
\* truncate deleting range(latest_good_block, last_block_read): the last good
\* block goes too.
TruncateFromGood(bm, lbr, latest_good_block) ==
    LET to_delete == latest_good_block..(lbr - 1)
        missing == {b \in to_delete : b \notin DOMAIN bm}
    IN  IF lbr = 0
            THEN [block_map |-> bm, last_block_read |-> lbr, raised |-> "AssertionError"]
        ELSE IF missing # {}
            THEN [block_map |-> Without(bm, {b \in to_delete : b < SetMin(missing)}),
                  last_block_read |-> lbr, raised |-> "KeyError"]
            ELSE [block_map |-> Without(bm, to_delete),
                  last_block_read |-> latest_good_block, raised |-> ""]
\* truncate without "assert self.last_block_read".
TruncateNoAssert(bm, lbr, latest_good_block) ==
    LET to_delete == (latest_good_block + 1)..(lbr - 1)
        missing == {b \in to_delete : b \notin DOMAIN bm}
    IN  IF missing # {}
            THEN [block_map |-> Without(bm, {b \in to_delete : b < SetMin(missing)}),
                  last_block_read |-> lbr, raised |-> "KeyError"]
            ELSE [block_map |-> Without(bm, to_delete),
                  last_block_read |-> latest_good_block, raised |-> ""]
truncate(bm, lbr, latest_good_block) ==
    LET to_delete == (latest_good_block + 1)..(lbr - 1)
        missing == {b \in to_delete : b \notin DOMAIN bm}
    IN  IF lbr = 0
            THEN [block_map |-> bm, last_block_read |-> lbr, raised |-> "AssertionError"]
        ELSE IF missing # {}
            THEN [block_map |-> Without(bm, {b \in to_delete : b < SetMin(missing)}),
                  last_block_read |-> lbr, raised |-> "KeyError"]
            ELSE [block_map |-> Without(bm, to_delete),
                  last_block_read |-> latest_good_block, raised |-> ""]

\* A lookup that answers None for an absent block number instead of raising.
GetBlockTimestampOrNone(bm, block_number) ==
    IF block_number \in DOMAIN bm
        THEN [raised |-> "", value |-> bm[block_number].timestamp]
        ELSE [raised |-> "", value |-> None]
\* get_block_timestamp(block_number): self.block_map[block_number].timestamp;
\* the subscription raises KeyError for an absent key.
get_block_timestamp(bm, block_number) ==
    IF block_number \in DOMAIN bm
        THEN [raised |-> "", value |-> bm[block_number].timestamp]
        ELSE [raised |-> "KeyError", value |-> None]

\* The comparison inverted: equal hashes raise.
CheckBlockReorgInverted(bm, block_number, block_hash) ==
    IF block_number \notin DOMAIN bm THEN "AttributeError"
    ELSE IF bm[block_number].block_hash = block_hash THEN "ChainReorganisationDetected"
    ELSE ""

\* check_block_reorg(block_number, block_hash): "" when it returns, else the
\* exception.  block_map.get() gives None for an absent block, and
\* None.block_hash raises AttributeError.
check_block_reorg(bm, block_number, block_hash) ==
    IF block_number \notin DOMAIN bm THEN "AttributeError"
    ELSE IF bm[block_number].block_hash # block_hash THEN "ChainReorganisationDetected"
    ELSE ""

\* ------------------------------------------------------------- the source

\* get_last_block_live()
get_last_block_live == Len(chain)

\* start_block = end_block - block_count, without the max(..., 1).
LoadInitialDataNoFloor(block_count) ==
    LET end_block == get_last_block_live
        start_block == end_block - block_count
    IN  <<start_block, end_block>>
\* load_initial_data(block_count): the pair (start_block, end_block).
load_initial_data(block_count) ==
    LET end_block == get_last_block_live
        start_block == Max(end_block - block_count, 1)
    IN  <<start_block, end_block>>

\* The hashes get_block_data may report for block n when it is yielded: the
\* source's current hash; for the unstable block, a hash that has changed from
\* the one the monitor recorded for it.
Reported(n) ==
    IF n = unstable /\ n \in DOMAIN block_map
        THEN Hashes \ {block_map[n].block_hash}
        ELSE {chain[n]}

Init ==
    /\ block_map = EmptyMap
    /\ last_block_read = 0
    /\ chain = <<>>
    /\ unstable = 0
    /\ self_block_number = 1
    /\ pc = "idle"
    /\ tries_left = 0
    /\ max_purge = None
    /\ check_start_at = None
    /\ chain_last_block = None
    /\ cursor = None
    /\ streamed = <<>>
    /\ attempt = NoAttempt
    /\ detected = <<>>
    /\ quiet = FALSE
    /\ pre = Ledger(EmptyMap, 0)
    /\ prev = NoPrev
    /\ appends_only = TRUE
    /\ result = NoResult


\* --------------------------------------------------- the caller's operations

\* A caller calls add_block(record).
AddBlockCall(record) ==
    /\ pc = "idle"
    /\ LET r == add_block(block_map, last_block_read, record)
       IN  /\ block_map' = r.block_map
           /\ last_block_read' = r.last_block_read
           /\ result' = Outcome("add_block", record, r.raised, None, None)
           /\ appends_only' = (appends_only /\ r.raised = "")
    /\ pre' = Ledger(block_map, last_block_read)
    /\ prev' = NoPrev
    /\ detected' = <<>>
    /\ quiet' = FALSE
    /\ UNCHANGED <<source, pc, locals>>

\* A caller calls truncate(latest_good_block).
TruncateCall(latest_good_block) ==
    /\ pc = "idle"
    /\ LET r == truncate(block_map, last_block_read, latest_good_block)
       IN  /\ block_map' = r.block_map
           /\ last_block_read' = r.last_block_read
           /\ result' = Outcome("truncate", latest_good_block, r.raised, None, None)
           /\ appends_only' = FALSE
    /\ pre' = Ledger(block_map, last_block_read)
    /\ prev' = NoPrev
    /\ detected' = <<>>
    /\ quiet' = FALSE
    /\ UNCHANGED <<source, pc, locals>>

\* A caller calls get_block_timestamp(block_number): nothing is assigned.
GetBlockTimestampCall(block_number) ==
    /\ pc = "idle"
    /\ LET r == get_block_timestamp(block_map, block_number)
       IN  result' = [Outcome("get_block_timestamp", block_number, r.raised, None, None)
                        EXCEPT !.value = r.value]
    /\ block_map' = block_map
    /\ last_block_read' = last_block_read
    /\ pre' = Ledger(block_map, last_block_read)
    /\ prev' = NoPrev
    /\ detected' = <<>>
    /\ quiet' = FALSE
    /\ UNCHANGED <<source, pc, locals, appends_only>>

\* A caller calls load_initial_data(block_count): nothing is assigned.
LoadInitialDataCall(block_count) ==
    /\ pc = "idle"
    /\ result' = [Outcome("load_initial_data", block_count, "", None, None)
                    EXCEPT !.value = load_initial_data(block_count)]
    /\ block_map' = block_map
    /\ last_block_read' = last_block_read
    /\ pre' = Ledger(block_map, last_block_read)
    /\ prev' = NoPrev
    /\ detected' = <<>>
    /\ quiet' = FALSE
    /\ UNCHANGED <<source, pc, locals, appends_only>>

\* --------------------------------------------------------------- update_chain

\* update_chain leaves: by return (raised = "") or by an exception; att is
\* the record of its attempts.
LeaveWith(att, raised, lbn, lgb, yielded) ==
    /\ pc' = "idle"
    /\ result' = [Outcome("update_chain", None, raised, lbn, lgb) EXCEPT
                    !.check_start_at = check_start_at,
                    !.chain_last_block = chain_last_block,
                    !.streamed = yielded,
                    !.attempt = att]
    /\ tries_left' = 0
    /\ max_purge' = None
    /\ check_start_at' = None
    /\ chain_last_block' = None
    /\ cursor' = None
    /\ streamed' = <<>>
    /\ attempt' = NoAttempt

Leave(raised, lbn, lgb, yielded) == LeaveWith(attempt, raised, lbn, lgb, yielded)

\* "if max_purge: max_purge = min(...)" with the else branch left out.
PurgePointNoElse(purge, e_block_number) ==
    IF purge # None /\ purge # 0
        THEN Min(e_block_number - 1, purge)
        ELSE purge
\* max_purge after a ChainReorganisationDetected at e_block_number
\* (None and 0 are both falsy in "if max_purge:").
purge_point(purge, e_block_number) ==
    IF purge # None /\ purge # 0
        THEN Min(e_block_number - 1, purge)
        ELSE e_block_number

\* max_purge = 0 in place of max_purge = None.
MaxPurgeInitiallyZero == None + 1
\* max_purge = None, update_chain's second statement.
max_purge_initially == None

\* A caller calls update_chain(): tries_left and max_purge are initialised.
UpdateChainCall ==
    /\ pc = "idle"
    /\ pc' = "loop"
    /\ tries_left' = MaxCycleTries
    /\ max_purge' = max_purge_initially
    /\ pre' = Ledger(block_map, last_block_read)
    /\ prev' = IF result.op = "update_chain" /\ result.raised = "" /\ quiet /\ unstable = 0
                  THEN [returned |-> TRUE, last_block_number |-> result.last_block_number]
                  ELSE NoPrev
    /\ result' = NoResult
    /\ detected' = <<>>
    /\ quiet' = TRUE
    /\ appends_only' = FALSE
    /\ streamed' = <<>>
    /\ attempt' = NoAttempt
    /\ UNCHANGED <<ledger, source, check_start_at, chain_last_block, cursor>>

\* check_start_at = 1: every attempt scans the whole ledger.
WindowStartFull(lbr) == Max(lbr - lbr, 1)
\* max(last_block_read - check_depth + 1, 1): a window one block short.
WindowStartOneShort(lbr) == Max(lbr - CheckDepth + 1, 1)
\* check_start_at for a ledger whose last_block_read is lbr.
window_start(lbr) == Max(lbr - CheckDepth, 1)

\* The head queried by the first attempt alone and kept for the later ones.
QueriesHeadOnce(attempt_number) == attempt_number = 1
\* Whether the attempt of this number queries get_last_block_live():
\* "chain_last_block = self.get_last_block_live()" is the first statement of
\* figure_reorganisation_and_new_blocks, which every pass of the loop calls.
queries_head(attempt_number) == attempt_number >= 1

\* while tries_left > 0: figure_reorganisation_and_new_blocks() begins: the
\* head is queried, the window computed, the generator created.
BeginAttempt ==
    /\ pc = "loop"
    /\ tries_left > 0
    /\ chain_last_block' = IF queries_head(attempt.count + 1)
                               THEN get_last_block_live
                               ELSE chain_last_block
    /\ check_start_at' = window_start(last_block_read)
    /\ cursor' = window_start(last_block_read)
    /\ streamed' = <<>>
    /\ attempt' = [attempt EXCEPT
                    !.count = @ + 1,
                    !.head_queries = @ + (IF queries_head(attempt.count + 1) THEN 1 ELSE 0),
                    !.ledger = Ledger(block_map, last_block_read)]
    /\ pc' = "scan"
    /\ UNCHANGED <<ledger, source, tries_left, max_purge, detected, quiet, pre, prev,
                   appends_only, result>>

\* The while loop ends with tries_left = 0: ReorganisationResolutionFailure.
GiveUp ==
    /\ pc = "loop"
    /\ tries_left <= 0
    /\ Leave("ReorganisationResolutionFailure", None, None, streamed)
    /\ UNCHANGED <<ledger, source, detected, quiet, pre, prev, appends_only>>

\* The generator is exhausted: figure_reorganisation_and_new_blocks returns
\* and update_chain returns ChainReorganisationResolution(last_block_read, max_purge).
ReturnResolution ==
    /\ pc = "scan"
    /\ cursor > chain_last_block
    /\ Leave("", last_block_read, max_purge, streamed)
    /\ UNCHANGED <<ledger, source, detected, quiet, pre, prev, appends_only>>

\* "except Exception as e" in place of the clause below.
CaughtAnything(exception) == exception # ""
\* "except ReorganisationResolutionFailure as e" in place of the clause below.
CaughtResolutionFailure(exception) == exception = "ReorganisationResolutionFailure"
\* "except ChainReorganisationDetected as e": the exceptions raised in the try
\* block that update_chain's handler catches.
caught(exception) == exception = "ChainReorganisationDetected"

\* The handler without its last statement: the budget is not spent.
TriesLeftKept(tries) == tries
\* "tries_left -= 1", the last statement of the except clause.
tries_left_after_retry(tries) == tries - 1

\* One iteration of the for loop over get_block_data: the generator yields the
\* next block, check_block_reorg compares it, an absent block is appended; a
\* ChainReorganisationDetected is handled by update_chain's except clause.
ScanBlock ==
    /\ pc = "scan"
    /\ cursor <= chain_last_block
    /\ \E h \in Reported(cursor) :
        LET block == BlockRecord(cursor, h)
            c == check_block_reorg(block_map, block.block_number, block.block_hash)
            seen == [attempt EXCEPT !.differed =
                        @ \/ ( /\ block.block_number \in DOMAIN block_map
                               /\ block_map[block.block_number].block_hash # block.block_hash )]
        IN  /\ chain' = [chain EXCEPT ![cursor] = h]
            /\ IF c # "" /\ ~caught(c) THEN
                    /\ LeaveWith(seen, c, None, None, Append(streamed, block))
                    /\ UNCHANGED <<ledger, detected>>
               ELSE IF c # "" THEN
                    LET latest_good_block == block.block_number - 1
                        t == truncate(block_map, last_block_read, latest_good_block)
                    IN  /\ detected' = Append(detected,
                                [block_number |-> block.block_number,
                                 original_hash |-> block_map[block.block_number].block_hash])
                        /\ block_map' = t.block_map
                        /\ last_block_read' = t.last_block_read
                        /\ IF t.raised # "" THEN
                                LeaveWith(seen, t.raised, None, None, Append(streamed, block))
                           ELSE
                                /\ max_purge' = purge_point(max_purge, block.block_number)
                                /\ tries_left' = tries_left_after_retry(tries_left)
                                /\ pc' = "loop"
                                /\ streamed' = Append(streamed, block)
                                /\ attempt' = seen
                                /\ UNCHANGED <<check_start_at, chain_last_block, cursor,
                                               result>>
               ELSE IF block.block_number \notin DOMAIN block_map THEN
                    LET a == add_block(block_map, last_block_read, block)
                    IN  /\ block_map' = a.block_map
                        /\ last_block_read' = a.last_block_read
                        /\ detected' = detected
                        /\ IF a.raised # "" THEN
                                LeaveWith(seen, a.raised, None, None, Append(streamed, block))
                           ELSE
                                /\ cursor' = cursor + 1
                                /\ streamed' = Append(streamed, block)
                                /\ attempt' = seen
                                /\ UNCHANGED <<pc, tries_left, max_purge, check_start_at,
                                               chain_last_block, result>>
               ELSE
                    /\ cursor' = cursor + 1
                    /\ streamed' = Append(streamed, block)
                    /\ attempt' = seen
                    /\ UNCHANGED <<ledger, detected, pc, tries_left, max_purge,
                                   check_start_at, chain_last_block, result>>
    /\ UNCHANGED <<unstable, self_block_number, quiet, pre, prev, appends_only>>

\* ------------------------------------- SyntheticReorganisationMonitor

\* Python's hex() of a non-negative integer.
HexDigit == <<"0", "1", "2", "3", "4", "5", "6", "7", "8", "9", "a", "b", "c", "d", "e", "f">>
RECURSIVE HexDigits(_)
HexDigits(n) ==
    IF n < 16 THEN HexDigit[n + 1]
    ELSE HexDigits(n \div 16) \o HexDigit[(n % 16) + 1]
hex(n) == "0x" \o HexDigits(n)

\* BlockRecord(num, hex(num), num)
SyntheticRecord(num) == [block_number |-> num, block_hash |-> hex(num), timestamp |-> num]

\* produce_blocks(block_count): for each block, num = self.block_number,
\* self.block_number += 1, then add_block(record), whose assertions may end
\* the loop.
RECURSIVE produce_blocks(_, _, _, _)
produce_blocks(bm, lbr, bn, block_count) ==
    IF block_count <= 0
        THEN [block_map |-> bm, last_block_read |-> lbr, block_number |-> bn, raised |-> ""]
    ELSE LET a == add_block(bm, lbr, SyntheticRecord(bn))
         IN  IF a.raised # ""
                THEN [block_map |-> a.block_map, last_block_read |-> a.last_block_read,
                      block_number |-> bn + 1, raised |-> a.raised]
                ELSE produce_blocks(a.block_map, a.last_block_read, bn + 1, block_count - 1)

\* SyntheticReorganisationMonitor.get_last_block_live()
synthetic_get_last_block_live(bn) == bn - 1

\* SyntheticReorganisationMonitor.get_block_data(start_block, end_block), read
\* to its end: the two assertions, then self.block_map[i] for i in
\* range(start_block, end_block + 1); a missing key raises KeyError after the
\* records before it have been yielded.
synthetic_get_block_data(bm, bn, start_block, end_block) ==
    LET missing == {i \in start_block..end_block : i \notin DOMAIN bm}
        last == IF missing = {} THEN end_block ELSE SetMin(missing) - 1
        yielded == [i \in 1..(last - start_block + 1) |-> bm[start_block + i - 1]]
    IN  IF ~(start_block > 0) \/ ~(end_block <= synthetic_get_last_block_live(bn))
            THEN [raised |-> "AssertionError", value |-> <<>>]
        ELSE IF missing # {}
            THEN [raised |-> "KeyError", value |-> yielded]
            ELSE [raised |-> "", value |-> yielded]

\* A test harness calls produce_blocks(block_count).
ProduceBlocksCall(block_count) ==
    /\ pc = "idle"
    /\ self_block_number + block_count - 1 <= MaxBlock
    /\ LET r == produce_blocks(block_map, last_block_read, self_block_number, block_count)
       IN  /\ block_map' = r.block_map
           /\ last_block_read' = r.last_block_read
           /\ self_block_number' = r.block_number
           /\ result' = Outcome("produce_blocks", block_count, r.raised, None, None)
           /\ appends_only' = (appends_only /\ r.raised = "")
    /\ pre' = Ledger(block_map, last_block_read)
    /\ prev' = NoPrev
    /\ detected' = <<>>
    /\ quiet' = FALSE
    /\ UNCHANGED <<chain, unstable, pc, locals>>

\* A caller reads get_block_data(start_block, end_block) of the synthetic
\* monitor to its end.
SyntheticGetBlockDataCall(start_block, end_block) ==
    /\ pc = "idle"
    /\ LET r == synthetic_get_block_data(block_map, self_block_number, start_block, end_block)
       IN  result' = [Outcome("get_block_data", <<start_block, end_block>>, r.raised, None, None)
                        EXCEPT !.value = r.value]
    /\ block_map' = block_map
    /\ last_block_read' = last_block_read
    /\ pre' = Ledger(block_map, last_block_read)
    /\ prev' = NoPrev
    /\ detected' = <<>>
    /\ quiet' = FALSE
    /\ UNCHANGED <<source, pc, locals, appends_only>>

\* ------------------------------------------------- the source's failures

\* An exception raised in the try block, other than by check_block_reorg and
\* add_block: it leaves update_chain unless the except clause catches it, in
\* which case the handler runs to "tries_left -= 1" and the loop goes on.
Raised(att, exception, yielded) ==
    IF caught(exception)
        THEN /\ attempt' = att
             /\ tries_left' = tries_left_after_retry(tries_left)
             /\ pc' = "loop"
             /\ UNCHANGED <<max_purge, check_start_at, chain_last_block, cursor,
                            streamed, result>>
        ELSE LeaveWith(att, exception, None, None, yielded)

\* An attempt begins and get_last_block_live() raises.
HeadQueryFails ==
    /\ pc = "loop"
    /\ tries_left > 0
    /\ Raised([attempt EXCEPT !.count = @ + 1,
                              !.head_queries = @ + 1,
                              !.source_errors = @ + 1,
                              !.ledger = Ledger(block_map, last_block_read)],
              "SourceError", <<>>)
    /\ UNCHANGED <<ledger, source, detected, quiet, pre, prev, appends_only>>

\* The get_block_data generator raises in place of yielding the next block.
FetchFails ==
    /\ pc = "scan"
    /\ cursor <= chain_last_block
    /\ Raised([attempt EXCEPT !.source_errors = @ + 1], "SourceError", streamed)
    /\ UNCHANGED <<ledger, source, detected, quiet, pre, prev, appends_only>>

\* ------------------------------------------------------ the source's moves

\* The monitor reads the source at the head query and at each yield of an
\* attempt, so what an attempt observes of a source that moves during the scan
\* is what it observes of a source that made the same moves before the
\* attempt began: the source moves between calls and between attempts.
\* The source has moved: the call in progress is no longer quiet; between
\* calls, what the last operation reported no longer describes the source.
SourceMoved ==
    /\ quiet' = FALSE
    /\ IF pc = "idle"
          THEN /\ pre' = Ledger(EmptyMap, 0)
               /\ prev' = NoPrev
               /\ result' = NoResult
               /\ detected' = <<>>
          ELSE UNCHANGED <<pre, prev, result, detected>>

\* The chain grows by one block.
SourceProduce(h) ==
    /\ pc # "scan"
    /\ Len(chain) < MaxBlock
    /\ chain' = Append(chain, h)
    /\ SourceMoved
    /\ UNCHANGED <<ledger, unstable, self_block_number, pc, locals, appends_only>>

\* The chain reorganises: block n gets another hash.
SourceReorg(n, h) ==
    /\ pc # "scan"
    /\ n \in 1..Len(chain)
    /\ h # chain[n]
    /\ chain' = [chain EXCEPT ![n] = h]
    /\ SourceMoved
    /\ UNCHANGED <<ledger, unstable, self_block_number, pc, locals, appends_only>>

\* Block n becomes (n > 0) or stops being (n = 0) permanently unstable.
SourceUnstable(n) ==
    /\ pc = "idle"
    /\ n \in 0..Len(chain)
    /\ n # unstable
    /\ unstable' = n
    /\ SourceMoved
    /\ UNCHANGED <<ledger, chain, self_block_number, pc, locals, appends_only>>

UpdateChainStep ==
    \/ UpdateChainCall
    \/ BeginAttempt
    \/ GiveUp
    \/ ReturnResolution
    \/ ScanBlock

\* The ledger alone, driven by its caller.
NextLedger ==
    \/ \E record \in BlockRecords : AddBlockCall(record)
    \/ \E k \in 0..MaxBlock : TruncateCall(k)
    \/ \E n \in 0..MaxBlock : GetBlockTimestampCall(n)

SpecLedger == Init /\ [][NextLedger]_vars

\* The monitor, its ledger seeded by add_block, against a source that grows
\* and reorganises.
Next ==
    \/ \E record \in BlockRecords : AddBlockCall(record)
    \/ UpdateChainStep
    \/ \E h \in Hashes : SourceProduce(h)
    \/ \E n \in BlockNumbers, h \in Hashes : SourceReorg(n, h)

Spec == Init /\ [][Next]_vars

\* The monitor against a source whose two operations may raise.
NextFaulty ==
    \/ Next
    \/ HeadQueryFails
    \/ FetchFails

SpecFaulty == Init /\ [][NextFaulty]_vars

\* The synthetic monitor driven by a test harness.
NextSynthetic ==
    \/ \E block_count \in 1..MaxBlock : ProduceBlocksCall(block_count)
    \/ \E k \in 0..MaxBlock : TruncateCall(k)
    \/ \E start_block, end_block \in 0..MaxBlock :
            SyntheticGetBlockDataCall(start_block, end_block)

SpecSynthetic == Init /\ [][NextSynthetic]_vars

\* The monitor with every operation that writes the ledger open to its
\* caller: add_block, truncate and update_chain, in any interleaving.
NextAll ==
    \/ Next
    \/ \E k \in 0..MaxBlock : TruncateCall(k)

SpecAll == Init /\ [][NextAll]_vars

\* A caller that asks for the initial window and seeds the ledger, against a
\* source that grows.
NextInitial ==
    \/ \E block_count \in 0..(MaxBlock + 1) : LoadInitialDataCall(block_count)
    \/ \E record \in BlockRecords : AddBlockCall(record)
    \/ \E h \in Hashes : SourceProduce(h)

SpecInitial == Init /\ [][NextInitial]_vars

\* The monitor with a caller that seeds the ledger in order before its first
\* update_chain call, against a source that grows and reorganises.  update_chain is a synchronous call: once
\* called it runs, step after step, until it returns or raises, whatever the
\* source does meanwhile.
NextFair ==
    \/ \E record \in BlockRecords :
            /\ appends_only
            /\ record.block_number = last_block_read + 1
            /\ AddBlockCall(record)
    \/ UpdateChainStep
    \/ \E h \in Hashes : SourceProduce(h)
    \/ \E n \in BlockNumbers, h \in Hashes : SourceReorg(n, h)

SpecFair == Init /\ [][NextFair]_vars /\ WF_vars(UpdateChainStep)

\* The monitor against a source with a permanently unstable block.
NextUnstable ==
    \/ \E record \in BlockRecords : AddBlockCall(record)
    \/ UpdateChainStep
    \/ \E h \in Hashes : SourceProduce(h)
    \/ \E n \in 0..MaxBlock : SourceUnstable(n)

SpecUnstable == Init /\ [][NextUnstable]_vars

\* ------------------------------------------------------------------ claims

\* The ledger l holds exactly the blocks 1..last_block_read.
InOrder(l) == DOMAIN l.block_map = 1..l.last_block_read
\* The last operation was op and has ended.
Finished(op) == pc = "idle" /\ result.op = op
\* The source has not moved since the last update_chain call began.
Calm == quiet /\ unstable = 0
\* The ledger l holds block n with the hash the source has for it.
Agrees(l, n) == n \in DOMAIN l.block_map /\ l.block_map[n].block_hash = chain[n]
\* The source's record of block n.
SourceRecord(n) == BlockRecord(n, chain[n])
\* The highest block number in a dict, 0 when it is empty.
Highest(bm) == IF DOMAIN bm = {} THEN 0 ELSE CHOOSE x \in DOMAIN bm : \A y \in DOMAIN bm : y <= x

\* C1 Reorg resolution: from a ledger 1..L and a source with head L that
\* differs from the ledger at exactly one block N of the check window,
\* update_chain returns (L, N-1) and leaves the ledger holding exactly the
\* source's records for 1..L.
C1_ReorgResolution ==
    \A N \in BlockNumbers :
        LET L == pre.last_block_read
        IN  ( /\ Finished("update_chain")
              /\ Calm
              /\ L >= 1
              /\ InOrder(pre)
              /\ Len(chain) = L
              /\ N \in window_start(L)..L
              /\ {n \in 1..L : ~Agrees(pre, n)} = {N} )
            => /\ result.raised = ""
               /\ result.last_block_number = L
               /\ result.latest_good_block = N - 1
               /\ last_block_read = L
               /\ block_map = [n \in 1..L |-> SourceRecord(n)]

\* C2 Forward growth: from a ledger 1..L agreeing with the source and a source
\* head H > L, update_chain appends L+1..H and returns (H, None); the ledger
\* then holds 1..H.
C2_ForwardGrowth ==
    LET L == pre.last_block_read
        H == Len(chain)
    IN  ( /\ Finished("update_chain")
          /\ Calm
          /\ L >= 1
          /\ InOrder(pre)
          /\ H > L
          /\ \A n \in 1..L : Agrees(pre, n) )
        => /\ result.raised = ""
           /\ result.last_block_number = H
           /\ result.latest_good_block = None
           /\ last_block_read = H
           /\ block_map = [n \in 1..H |-> IF n <= L THEN pre.block_map[n] ELSE SourceRecord(n)]

\* C3 Stale record is not retained: once update_chain has caught a mismatch at
\* block N, whose ledger hash was H1, and truncated, and until the call has
\* finished, the ledger holds no record for N with hash H1.
C3_StaleNotRetained ==
    \A i \in 1..Len(detected) :
        ~ ( /\ detected[i].block_number \in DOMAIN block_map
            /\ block_map[detected[i].block_number].block_hash = detected[i].original_hash )

\* C4 Truncate correctness: after truncate(k) on a non-empty ledger 1..L with
\* k <= L, last_block_read = k and no block number > k remains.
C4_TruncateCorrect ==
    ( /\ Finished("truncate")
      /\ pre.last_block_read >= 1
      /\ InOrder(pre)
      /\ result.arg <= pre.last_block_read )
    => /\ result.raised = ""
       /\ last_block_read = result.arg
       /\ \A b \in DOMAIN block_map : b <= result.arg

\* C5 Contiguity after appends: after any sequence of successful add_block
\* calls on a fresh monitor the ledger holds exactly the block numbers
\* 1..last_block_read, with no gaps.
C5_ContiguityAfterAppends ==
    appends_only => InOrder(Ledger(block_map, last_block_read))
C5_Witness ==
    /\ appends_only
    /\ Finished("add_block")
    /\ last_block_read = MaxBlock
    /\ DOMAIN block_map = 1..MaxBlock

\* C6 Monotonic append: add_block of a block number other than
\* last_block_read + 1 fails, and last_block_read stays where it was.
C6_MonotonicAppend ==
    ( /\ Finished("add_block")
      /\ result.arg.block_number # pre.last_block_read + 1 )
    => /\ result.raised = "AssertionError"
       /\ last_block_read = pre.last_block_read
C6_Witness ==
    /\ Finished("add_block")
    /\ result.arg.block_number > pre.last_block_read + 1
    /\ result.arg.block_number \notin DOMAIN pre.block_map
    /\ result.raised = "AssertionError"

\* C7 No re-append: add_block of a block number the ledger holds fails, and the
\* record stored at that number stays.
C7_NoReappend ==
    ( /\ Finished("add_block")
      /\ result.arg.block_number \in DOMAIN pre.block_map )
    => /\ result.raised = "AssertionError"
       /\ result.arg.block_number \in DOMAIN block_map
       /\ block_map[result.arg.block_number] = pre.block_map[result.arg.block_number]
C7_Witness ==
    /\ Finished("add_block")
    /\ result.arg.block_number \in DOMAIN pre.block_map
    /\ result.arg # pre.block_map[result.arg.block_number]
    /\ result.raised = "AssertionError"

\* C8 Clean-pass idempotence: an update_chain call that follows a returned
\* update_chain call, the source not having moved since the first began,
\* returns the same last_block_number, no purge point, and leaves the ledger
\* as it found it.
C8_CleanPassIdempotent ==
    ( /\ Finished("update_chain")
      /\ prev.returned
      /\ Calm )
    => /\ result.raised = ""
       /\ result.last_block_number = prev.last_block_number
       /\ result.latest_good_block = None
       /\ block_map = pre.block_map
       /\ last_block_read = pre.last_block_read
C8_Witness ==
    /\ Finished("update_chain")
    /\ prev.returned
    /\ Calm
    /\ result.raised = ""
    /\ result.last_block_number >= 2
    /\ result.chain_last_block >= 2

\* C9 Retry exhaustion: against a source that reports a changed hash for block
\* N of the check window on every read, update_chain raises
\* ReorganisationResolutionFailure after exactly max_cycle_tries truncations.
C9_RetryExhaustion ==
    LET L == pre.last_block_read
        N == unstable
    IN  ( /\ Finished("update_chain")
          /\ quiet
          /\ N >= 1
          /\ InOrder(pre)
          /\ N \in window_start(L)..L
          /\ \A n \in window_start(L)..(N - 1) : Agrees(pre, n) )
        => /\ result.raised = "ReorganisationResolutionFailure"
           /\ Len(detected) = MaxCycleTries

\* C10 No partial success: when update_chain returns, the ledger holds, for
\* every block of the last attempt's window, a record with the hash streamed
\* for it, and the returned last_block_number is last_block_read and is the
\* highest block number in the ledger.
C10_NoPartialSuccess ==
    ( /\ Finished("update_chain")
      /\ result.raised = ""
      /\ InOrder(pre) )
    => /\ \A b \in result.check_start_at..result.chain_last_block :
            /\ b \in DOMAIN block_map
            /\ block_map[b].block_hash
                 = result.streamed[b - result.check_start_at + 1].block_hash
       /\ result.last_block_number = last_block_read
       /\ last_block_read = Highest(block_map)

\* C11 Only resolution failure is surfaced: an update_chain call on a ledger
\* built by in-order add_block calls (or empty), against a source that keeps
\* to its interface, ends by returning a resolution or by raising
\* ReorganisationResolutionFailure, and by no other exception.
C11_OnlyResolutionFailure ==
    ( /\ Finished("update_chain")
      /\ InOrder(pre) )
    => result.raised \in {"", "ReorganisationResolutionFailure"}

\* C12 ChainReorganisationDetected never escapes: no update_chain call ends by
\* raising ChainReorganisationDetected to its caller.
C12_DetectedNeverEscapes ==
    Finished("update_chain") => result.raised # "ChainReorganisationDetected"
C12_Witness ==
    /\ Finished("update_chain")
    /\ Len(detected) = MaxCycleTries
    /\ result.raised = "ReorganisationResolutionFailure"

\* C13 Purge point value: when update_chain returns after catching mismatches
\* at block numbers n1, ..., nk (k >= 1), the returned latest_good_block is
\* the least of n1 - 1, ..., nk - 1.
C13_PurgePointValue ==
    ( /\ Finished("update_chain")
      /\ result.raised = ""
      /\ Len(detected) >= 1 )
    => result.latest_good_block
         = SetMin({detected[i].block_number - 1 : i \in 1..Len(detected)})

\* C14 Purge point presence: the latest_good_block of the resolution that
\* update_chain returns is None exactly when the call caught no mismatch.
C14_PurgePointPresence ==
    ( /\ Finished("update_chain")
      /\ result.raised = "" )
    => (result.latest_good_block = None <=> Len(detected) = 0)
C14_Witness ==
    /\ Finished("update_chain")
    /\ result.raised = ""
    /\ Len(detected) >= 1
    /\ result.latest_good_block # None

\* C15 First pass seeds the ledger: update_chain on an empty ledger with
\* last_block_read = 0, against a source with head H >= 1, returns (H, None)
\* and leaves the ledger holding the source's records for 1..H.
C15_FirstPassSeeds ==
    LET H == Len(chain)
    IN  ( /\ Finished("update_chain")
          /\ Calm
          /\ pre = Ledger(EmptyMap, 0)
          /\ H >= 1 )
        => /\ result.raised = ""
           /\ result.last_block_number = H
           /\ result.latest_good_block = None
           /\ last_block_read = H
           /\ block_map = [n \in 1..H |-> SourceRecord(n)]

\* C16 Timestamp lookup: get_block_timestamp(n) returns the timestamp of the
\* record the ledger holds at n, raises KeyError when the ledger holds none,
\* and leaves block_map and last_block_read as they were.
C16_TimestampLookup ==
    LET n == result.arg
    IN  Finished("get_block_timestamp")
        => /\ n \in DOMAIN pre.block_map
                => /\ result.raised = ""
                   /\ result.value = pre.block_map[n].timestamp
           /\ n \notin DOMAIN pre.block_map => result.raised = "KeyError"
           /\ block_map = pre.block_map
           /\ last_block_read = pre.last_block_read
C16_Witness ==
    /\ Finished("get_block_timestamp")
    /\ result.arg \in DOMAIN block_map
    /\ result.raised = ""
    /\ result.value = block_map[result.arg].timestamp

C18_TruncateEmptyFails ==
    ( /\ Finished("truncate")
      /\ pre.last_block_read = 0 )
    => /\ result.raised = "AssertionError"
       /\ block_map = pre.block_map
       /\ last_block_read = 0
C18_Witness ==
    /\ Finished("truncate")
    /\ pre.last_block_read = 0
    /\ result.arg >= 1
    /\ result.raised = "AssertionError"

\* C19 Ledger invariant under all operations: in every state reached by
\* add_block, truncate and update_chain calls, successful or failed, the block
\* numbers in block_map are a contiguous range ending at last_block_read
\* (so none exceeds last_block_read), and last_block_read = 0 exactly when
\* block_map is empty.
C19_LedgerInvariant ==
    LET present == DOMAIN block_map
    IN  /\ \A b \in present : b <= last_block_read
        /\ \A b \in present : \A c \in b..last_block_read : c \in present
        /\ last_block_read = 0 <=> present = {}

\* C20 A failed add_block has no effect: when add_block raises, block_map and
\* last_block_read are what they were before the call.
C20_FailedAddNoEffect ==
    ( /\ Finished("add_block")
      /\ result.raised # "" )
    => /\ block_map = pre.block_map
       /\ last_block_read = pre.last_block_read

\* The calls add_block for block numbers n, n + 1, ..., last, made in that
\* order on the ledger l with records of hash h, all return.
RECURSIVE AddsSucceed(_, _, _, _)
AddsSucceed(l, n, last, h) ==
    IF n > last THEN TRUE
    ELSE LET r == add_block(l.block_map, l.last_block_read, BlockRecord(n, h))
         IN  /\ r.raised = ""
             /\ AddsSucceed(Ledger(r.block_map, r.last_block_read), n + 1, last, h)

\* C21 Regrowth after truncation: after truncate(k) on a ledger 1..L with
\* L > k, the calls add_block for k+1, k+2, ..., L, L+1, in that order, all
\* succeed.
C21_RegrowthAfterTruncation ==
    LET L == pre.last_block_read
        k == result.arg
    IN  ( /\ Finished("truncate")
          /\ InOrder(pre)
          /\ L > k )
        => /\ result.raised = ""
           /\ \A h \in Hashes :
                AddsSucceed(Ledger(block_map, last_block_read), k + 1, L + 1, h)

\* The window start the scan of a ledger with last_block_read = lbr is to have.
FirstChecked(lbr) == IF lbr - CheckDepth >= 1 THEN lbr - CheckDepth ELSE 1
\* The records in seq are those of block numbers first, first + 1, ... in order.
Ascending(seq, first) == \A i \in 1..Len(seq) : seq[i].block_number = first + i - 1

\* C22 Scan window: every attempt of update_chain streams the blocks of the
\* range max(last_block_read - check_depth, 1) .. chain_last_block, where
\* last_block_read is the ledger's at the start of the attempt and
\* chain_last_block the head then queried, in ascending order and no others;
\* an attempt that ends by returning has streamed the whole range.
C22_ScanWindow ==
    /\ pc = "scan"
        => /\ check_start_at = FirstChecked(attempt.ledger.last_block_read)
           /\ chain_last_block = Len(chain)
           /\ Ascending(streamed, check_start_at)
           /\ cursor = check_start_at + Len(streamed)
           /\ Len(streamed) <= Max(chain_last_block - check_start_at + 1, 0)
    /\ Finished("update_chain") /\ result.attempt.count >= 1
        => /\ result.check_start_at = FirstChecked(result.attempt.ledger.last_block_read)
           /\ Ascending(result.streamed, result.check_start_at)
           /\ Len(result.streamed)
                <= Max(result.chain_last_block - result.check_start_at + 1, 0)
           /\ result.raised = ""
                => Len(result.streamed)
                     = Max(result.chain_last_block - result.check_start_at + 1, 0)
C22_Witness ==
    /\ Finished("update_chain")
    /\ result.raised = ""
    /\ Len(detected) >= 1
    /\ result.attempt.ledger.last_block_read < pre.last_block_read
    /\ result.check_start_at = FirstChecked(result.attempt.ledger.last_block_read)
    /\ Len(result.streamed) >= 2

\* C23 Head is re-fetched on every retry: every attempt of an update_chain
\* call begins by querying get_last_block_live(), so a call has made as many
\* head queries as it has begun attempts, one attempt more than the mismatches
\* caught before it, and each attempt scans up to the head the source has
\* when it begins.
C23_HeadRefetched ==
    /\ pc # "idle"
        => /\ attempt.head_queries = attempt.count
           /\ attempt.count = Len(detected) + (IF pc = "scan" THEN 1 ELSE 0)
    /\ pc = "scan" => chain_last_block = get_last_block_live
    /\ Finished("update_chain")
        => /\ result.attempt.head_queries = result.attempt.count
           /\ result.attempt.count \in {Len(detected), Len(detected) + 1}
           /\ result.raised = "" => result.attempt.count = Len(detected) + 1
C23_Witness ==
    /\ pc = "scan"
    /\ attempt.count = MaxCycleTries
    /\ attempt.head_queries = MaxCycleTries
    /\ ~quiet
    /\ chain_last_block = MaxBlock

\* C24 Bounded termination: every update_chain call ends, by returning or by
\* raising, after at most max_cycle_tries attempts; each caught mismatch takes
\* exactly one from the retry budget, and no attempt scans with a budget of
\* zero.
C24_BoundedTermination ==
    /\ [](/\ attempt.count <= MaxCycleTries
          /\ pc = "scan" => tries_left > 0
          /\ pc # "idle" => tries_left = MaxCycleTries - Len(detected))
    /\ [][pc = "scan" /\ pc' = "loop" => tries_left' = tries_left - 1]_vars
    /\ (pc # "idle") ~> (pc = "idle")
C24_Witness ==
    /\ Finished("update_chain")
    /\ result.attempt.count = MaxCycleTries
    /\ Len(detected) = MaxCycleTries - 1
    /\ ~quiet
    /\ result.raised = ""

\* C25 Truncation inside update_chain never moves the tip forward: every
\* truncate(latest_good_block) that update_chain issues on catching a mismatch
\* has latest_good_block <= last_block_read when it is called, so the step
\* does not increase last_block_read.
C25_TruncationNeverForward ==
    [][Len(detected') = Len(detected) + 1
         => /\ detected'[Len(detected')].block_number - 1 <= last_block_read
            /\ last_block_read' <= last_block_read]_vars

\* Every record of the dict before with block number <= k is in the dict
\* after, unchanged, and every record of before that after lacks is above k.
RolledBackTo(before, after, k) ==
    /\ \A b \in DOMAIN before :
            b <= k => b \in DOMAIN after /\ after[b] = before[b]
    /\ \A b \in (DOMAIN before) \ (DOMAIN after) : b > k

\* C26 Rollback is exact: truncate(k), and the truncation update_chain makes
\* on a mismatch at block N (k = N - 1), leaves every record with block number
\* <= k as it was and removes records above k only; truncate(k) adds and
\* replaces nothing.
C26_RollbackExact ==
    /\ Finished("truncate")
        => /\ RolledBackTo(pre.block_map, block_map, result.arg)
           /\ \A b \in DOMAIN block_map :
                b \in DOMAIN pre.block_map /\ block_map[b] = pre.block_map[b]
    /\ pc = "loop" /\ Len(detected) >= 1
        => RolledBackTo(attempt.ledger.block_map, block_map,
                        detected[Len(detected)].block_number - 1)
    /\ Finished("update_chain") /\ Len(detected) >= 1
        => /\ result.attempt.count = Len(detected)
                => RolledBackTo(result.attempt.ledger.block_map, block_map,
                                detected[Len(detected)].block_number - 1)
           /\ RolledBackTo(pre.block_map, block_map,
                           SetMin({detected[i].block_number - 1 : i \in 1..Len(detected)}))
C26_Witness ==
    /\ pc = "loop"
    /\ Len(detected) = 1
    /\ InOrder(pre)
    /\ DOMAIN block_map # DOMAIN attempt.ledger.block_map
    /\ detected[1].block_number >= 2

\* The records of the ledger l below its check window, those with block
\* number < last_block_read - check_depth, are in block_map as l has them.
DeepRecordsKept(l) ==
    \A b \in DOMAIN l.block_map :
        b < l.last_block_read - CheckDepth
            => b \in DOMAIN block_map /\ block_map[b] = l.block_map[b]

\* C27 Check depth bounds detection: in an attempt of update_chain that finds
\* the ledger with last_block_read = L, no block numbered below
\* L - check_depth is streamed or compared, and the records below it stay as
\* they are; when the source holds the ledger's blocks and differs from a
\* ledger 1..L in hashes of such blocks only, update_chain returns (L, None)
\* and leaves the ledger as it was.
C27_CheckDepthBounds ==
    /\ pc # "idle" /\ attempt.count >= 1
        => /\ \A i \in 1..Len(streamed) :
                streamed[i].block_number >= attempt.ledger.last_block_read - CheckDepth
           /\ DeepRecordsKept(attempt.ledger)
    /\ Finished("update_chain") /\ result.attempt.count >= 1
        => /\ \A i \in 1..Len(result.streamed) :
                result.streamed[i].block_number
                    >= result.attempt.ledger.last_block_read - CheckDepth
           /\ DeepRecordsKept(result.attempt.ledger)
    /\ LET L == pre.last_block_read
           changed == {n \in 1..Len(chain) : ~Agrees(pre, n)}
       IN  ( /\ Finished("update_chain")
             /\ Calm
             /\ InOrder(pre)
             /\ Len(chain) <= L
             /\ changed # {}
             /\ \A n \in changed : n < L - CheckDepth )
           => /\ result.raised = ""
              /\ result.last_block_number = L
              /\ result.latest_good_block = None
              /\ Len(detected) = 0
              /\ block_map = pre.block_map
              /\ last_block_read = L
C27_Witness ==
    /\ Finished("update_chain")
    /\ Calm
    /\ InOrder(pre)
    /\ pre.last_block_read = MaxBlock
    /\ Len(chain) = MaxBlock
    /\ {n \in 1..Len(chain) : ~Agrees(pre, n)} = {1}
    /\ 1 < MaxBlock - CheckDepth
    /\ result.latest_good_block = None
    /\ result.raised = ""

\* The ledger l with the records of seq it lacks added, last_block_read being
\* the block number of the last one added.
WithAppended(l, seq) ==
    LET new == {i \in 1..Len(seq) : seq[i].block_number \notin DOMAIN l.block_map}
        numbers == {seq[i].block_number : i \in new}
    IN  Ledger([b \in (DOMAIN l.block_map) \cup numbers |->
                    IF b \in DOMAIN l.block_map THEN l.block_map[b]
                    ELSE seq[CHOOSE i \in new : seq[i].block_number = b]],
               IF numbers = {} THEN l.last_block_read
               ELSE CHOOSE b \in numbers : \A c \in numbers : c <= b)

\* C28 Lower-layer error mid-scan: when get_last_block_live or get_block_data
\* raises during an attempt of update_chain, the call ends there with that
\* error, no further attempt being made and no retry spent on it, and the
\* ledger is the one the attempt found with the blocks appended before the
\* failing fetch.
C28_LowerLayerError ==
    /\ pc # "idle" => attempt.source_errors = 0
    /\ Finished("update_chain")
        => /\ result.attempt.source_errors <= 1
           /\ result.attempt.source_errors = 1
                => /\ result.raised = "SourceError"
                   /\ result.attempt.count = Len(detected) + 1
                   /\ Ledger(block_map, last_block_read)
                        = WithAppended(result.attempt.ledger, result.streamed)
C28_Witness ==
    /\ Finished("update_chain")
    /\ result.raised = "SourceError"
    /\ Len(detected) >= 1
    /\ Len(result.streamed) >= 1
    /\ block_map # pre.block_map

\* C29 Synthetic source is deterministic and independent of the ledger: with
\* simulated head H, get_block_data(s, e) for 1 <= s <= e <= H yields the
\* records (i, hex(i), i) for i = s..e in ascending order, whatever the ledger
\* holds, also after truncate has removed blocks from it.
C29_SyntheticDeterministic ==
    LET s == result.arg[1]
        e == result.arg[2]
        H == synthetic_get_last_block_live(self_block_number)
    IN  ( /\ Finished("get_block_data")
          /\ 1 <= s
          /\ s <= e
          /\ e <= H )
        => /\ result.raised = ""
           /\ result.value = [i \in 1..(e - s + 1) |-> SyntheticRecord(s + i - 1)]

\* No record the source yielded during the finished call carried a hash other
\* than the one the ledger held for its block when it was compared.
NoMismatch == ~result.attempt.differed

\* C30 update_chain never shrinks the ledger without a mismatch: after an
\* update_chain call in which no yielded hash differed from the ledger's (the
\* source head may be lower than last_block_read), every record the ledger
\* held is still there unchanged and last_block_read is not lower than before.
C30_NoShrinkWithoutMismatch ==
    (Finished("update_chain") /\ NoMismatch)
        => /\ \A b \in DOMAIN pre.block_map :
                b \in DOMAIN block_map /\ block_map[b] = pre.block_map[b]
           /\ last_block_read >= pre.last_block_read

\* An update_chain call returned with the source head below last_block_read,
\* having compared at least one block and found no mismatch.
C30_Witness ==
    /\ Finished("update_chain")
    /\ result.raised = ""
    /\ NoMismatch
    /\ Len(result.streamed) >= 1
    /\ result.chain_last_block < pre.last_block_read
    /\ Len(detected) = 0
    /\ block_map = pre.block_map
    /\ last_block_read = pre.last_block_read

====
